---- MODULE Spec2Model ----
(***************************************************************************)
(* Model of column_values_sum_to_be_between                                *)
(* (ingestion/src/metadata/test_suite/validations/column/                  *)
(*  column_values_sum_to_be_between.py).                                   *)
(*                                                                         *)
(* One behaviour is one invocation of the validator.  Python strings that  *)
(* the code takes apart (the entity link, the parameter values) are        *)
(* sequences of one-character strings, so that split / replace / float     *)
(* are computed and not assumed.  Python floats are counted in tenths      *)
(* (1.5 is 15), Python ints returned by the query stay integers.           *)
(* An optional value is a sequence: None is << >>, a value x is <<x>>.     *)
(***************************************************************************)
EXTENDS Integers, Sequences, FiniteSets, TLC

VARIABLES
    test_case,       \* the TestCase argument: name, entityLink, parameterValues
    execution_date,  \* the execution_date argument
    runner,          \* the QueryRunner argument: its table (name and columns)
    pc,              \* position of the call
    column_name,     \* local column_name (optional)
    col,             \* local col (optional)
    sum_value_res,   \* local sum_value_res (optional: None or an int)
    min_bound,       \* local min_bound (optional float, in tenths)
    max_bound,       \* local max_bound (optional float, in tenths)
    result,          \* the returned TestCaseResult (optional)
    raised,          \* the exception that left the function (optional)
    queries,         \* number of calls to runner.dispatch_query_select_first
    queryOutcome,    \* what the runner did: "none" yet, "raises", "no_row", "row"
    parsed,          \* indices of parameterValues whose value was given to float()
    compared         \* the chained comparison of line 94 was evaluated

vars == <<test_case, execution_date, runner, pc, column_name, col,
          sum_value_res, min_bound, max_bound, result, raised, queries,
          queryOutcome, parsed, compared>>

None == << >>
Some(x) == <<x>>

\* ------------------------------------------------------------------ bounds
MaxParams == 3      \* longest parameterValues list
MaxSum == 2         \* largest SUM the query returns

\* ------------------------------------------------------------------ inputs
MinName == "minValueForColSum"
MaxName == "maxValueForColSum"
SumKey == "sum"

EntityLinks ==
    { <<"<","#","E",":",":","t",":",":","a",">">>,
      <<"<","#","E",":",":","t",":",":","b",">">>,
      <<"<","#","E",":",":","t",":",":","a",">","a",">">>,
      <<"<","#","E",":",":","t",":",":","a",">",">">>,
      <<"<","#","E",":",":","t",":",":",":","a",">">>,
      <<"<","#","E",":",":","t",":",":",">","a">>,
      <<"<","#","E",":",":","t",":",":">>,
      <<"a",">">>,
      <<"a",":","a">> }

Tables ==
    { [tablename |-> "orders", columns |-> { <<"a">> }],
      [tablename |-> "users",  columns |-> { <<"a">>, <<"a",">","a">> }] }

ParamValues == { <<"1">>, <<"1",".","5">>, <<"x">> }

Params ==
    [name : {MinName, MaxName}, value : ParamValues]
        \cup { [name |-> "other", value |-> <<"x">>] }

ParamLists == UNION { [1..n -> Params] : n \in 0..MaxParams }

TestCases ==
    [name : {"tc"}, entityLink : EntityLinks, parameterValues : ParamLists]

ExecutionDates == {"2022-01-01", "2022-01-02"}

\* What runner.dispatch_query_select_first does: raise, return no row, or
\* return a row (a mapping with or without the sum key, whose value may be NULL).
\* A row is a set of <<key, value>> pairs with distinct keys.
Rows ==
    { {} } \cup { { <<SumKey, v>> } : v \in {None} \cup { Some(n) : n \in 0..MaxSum } }

QueryOutcomes ==
    { [kind |-> "raises", err |-> <<"connection refused">>] }
        \cup { [kind |-> "no_row"] }
        \cup { [kind |-> "row", row |-> r] : r \in Rows }

\* ------------------------------------------------------- pure functions

\* str.split("::")[-1]: the separators are found left to right without
\* overlap; the result is what follows the last one found.
RECURSIVE LastSegmentFrom(_, _, _)
LastSegmentFrom(s, i, start) ==
    IF i > Len(s) THEN SubSeq(s, start, Len(s))
    ELSE IF i < Len(s) /\ s[i] = ":" /\ s[i + 1] = ":"
         THEN LastSegmentFrom(s, i + 2, i + 2)
         ELSE LastSegmentFrom(s, i + 1, start)

LastSegment(s) == LastSegmentFrom(s, 1, 1)

\* str.replace(ch, ""): every occurrence of ch is removed.
RECURSIVE RemoveAll(_, _)
RemoveAll(s, ch) ==
    IF s = << >> THEN << >>
    ELSE IF Head(s) = ch THEN RemoveAll(Tail(s), ch)
         ELSE <<Head(s)>> \o RemoveAll(Tail(s), ch)

\* line 49
ColumnName(entityLink) == RemoveAll(LastSegment(entityLink), ">")

\* Mutation of FindColumn: the "col is None" check is missing.
FindColumnUnchecked(table, name) == Some(name)

\* lines 50-53: next((col for col in inspect(table).c if col.name == name), None)
FindColumn(table, name) ==
    IF name \in table.columns THEN Some(name) ELSE None

\* dict.get(key): the value under key, None when the key is absent
DictGet(row, key) ==
    IF \E p \in row : p[1] = key
    THEN (CHOOSE p \in row : p[1] = key)[2]
    ELSE None

\* float(text) for decimal literals: digits with at most one point and at
\* least one digit; anything else is a ValueError.  The value is in tenths,
\* so the literals of ParamValues carry at most one fractional digit.
DigitValue(c) ==
    CASE c = "0" -> 0 [] c = "1" -> 1 [] c = "2" -> 2 [] c = "3" -> 3
      [] c = "4" -> 4 [] c = "5" -> 5 [] c = "6" -> 6 [] c = "7" -> 7
      [] c = "8" -> 8 [] c = "9" -> 9

IsDigit(c) == c \in {"0", "1", "2", "3", "4", "5", "6", "7", "8", "9"}

RECURSIVE DigitsValue(_)
DigitsValue(s) ==
    IF s = << >> THEN 0
    ELSE 10 * DigitsValue(SubSeq(s, 1, Len(s) - 1)) + DigitValue(s[Len(s)])

PointAt(s) ==
    IF \E i \in 1..Len(s) : s[i] = "."
    THEN CHOOSE i \in 1..Len(s) : s[i] = "." /\ \A j \in 1..(i - 1) : s[j] # "."
    ELSE Len(s) + 1

Float(text) ==
    LET p == PointAt(text)
        whole == SubSeq(text, 1, p - 1)
        frac == SubSeq(text, p + 1, Len(text))
        wellFormed ==
            /\ \A i \in 1..Len(whole) : IsDigit(whole[i])
            /\ \A i \in 1..Len(frac) : IsDigit(frac[i])
            /\ Len(whole) + Len(frac) > 0
            /\ Len(frac) <= 1
    IN  IF wellFormed
        THEN [ok |-> TRUE,
              value |-> 10 * DigitsValue(whole) + DigitsValue(frac)]
        ELSE [ok |-> FALSE, value |-> 0]

\* str(n) of an int; str(None) is "None"
StrOfSum(s) == IF s = None THEN "None" ELSE ToString(s[1])

\* the f-string rendering of a float held in tenths: 15 is "1.5", 10 is "1.0"
StrOfFloat(t) == ToString(t \div 10) \o "." \o ToString(t % 10)

\* --------------------------------------------------- bound extraction

\* Mutation of FirstMatch: the last entry with the name wins.
LastMatch(params, name) ==
    IF \E i \in 1..Len(params) : params[i].name = name
    THEN CHOOSE i \in 1..Len(params) :
            /\ params[i].name = name
            /\ \A j \in (i + 1)..Len(params) : params[j].name # name
    ELSE 0

\* lines 80-81, 87-88: the generator yields for the first param whose name
\* matches; 0 when the loop ends without a match.
FirstMatch(params, name) ==
    IF \E i \in 1..Len(params) : params[i].name = name
    THEN CHOOSE i \in 1..Len(params) :
            /\ params[i].name = name
            /\ \A j \in 1..(i - 1) : params[j].name # name
    ELSE 0

\* Mutation of NextBound: next(..., 0.0), an absent bound defaults to 0.0.
NextBoundDefault(params, name) ==
    LET i == FirstMatch(params, name)
    IN  IF i = 0 THEN [kind |-> "ok", parsed |-> {}, value |-> 0]
        ELSE LET f == Float(params[i].value)
             IN  IF f.ok THEN [kind |-> "ok", parsed |-> {i}, value |-> f.value]
                 ELSE [kind |-> "ValueError", parsed |-> {i}, value |-> 0]

\* lines 77-83, 84-90: next(float(param.value) for param in ... if name matches)
\* with no default: StopIteration when nothing matches, the ValueError of
\* float() when the first match does not parse.
NextBound(params, name) ==
    LET i == FirstMatch(params, name)
    IN  IF i = 0 THEN [kind |-> "StopIteration", parsed |-> {}, value |-> 0]
        ELSE LET f == Float(params[i].value)
             IN  IF f.ok THEN [kind |-> "ok", parsed |-> {i}, value |-> f.value]
                 ELSE [kind |-> "ValueError", parsed |-> {i}, value |-> 0]

\* Mutation of InRange: the bounds are exclusive.
InRangeExclusive(lo, s, hi) == lo < 10 * s /\ 10 * s < hi

\* line 94: min_bound <= sum_value_res <= max_bound, floats in tenths, s an int
InRange(lo, s, hi) == lo <= 10 * s /\ 10 * s <= hi

\* ------------------------------------------------------------ results

\* line 55-57: the text of the ValueError
ColumnNotFound(name, tc) ==
    <<"Cannot find the configured column ", name, " for test case ", tc.name>>

\* dict(None): the text of the TypeError
NotIterable == <<"'NoneType' object is not iterable">>

\* Mutation of AbortedResult: the message is the bare error text.
AbortedResultBareMessage(tc, date, table, err) ==
    [timestamp |-> date,
     testCaseStatus |-> "Aborted",
     result |-> <<err>>,
     testResultValue |-> << [name |-> "sum", value |-> None] >>]

\* Mutation of AbortedResult: the timestamp is taken from the clock.
AbortedResultNow(tc, date, table, err) ==
    [timestamp |-> "now",
     testCaseStatus |-> "Aborted",
     result |-> <<"Error computing ", tc.name, " for ", table.tablename, ": ", err>>,
     testResultValue |-> << [name |-> "sum", value |-> None] >>]

\* lines 65-75
AbortedResult(tc, date, table, err) ==
    [timestamp |-> date,
     testCaseStatus |-> "Aborted",
     result |-> <<"Error computing ", tc.name, " for ", table.tablename, ": ", err>>,
     testResultValue |-> << [name |-> "sum", value |-> None] >>]

\* Mutation of FinalResult: the sum is rendered as a float.
FinalResultFloatSum(date, s, lo, hi) ==
    [timestamp |-> date,
     testCaseStatus |-> IF InRange(lo, s[1], hi) THEN "Success" ELSE "Failed",
     result |-> <<"Found sum=", StrOfSum(s), " vs.", " the expected min=",
                  StrOfFloat(lo), ", max=", StrOfFloat(hi), ".">>,
     testResultValue |-> << [name |-> "sum", value |-> Some(StrOfFloat(10 * s[1]))] >>]

\* lines 92-107, for a sum that is a number
FinalResult(date, s, lo, hi) ==
    [timestamp |-> date,
     testCaseStatus |-> IF InRange(lo, s[1], hi) THEN "Success" ELSE "Failed",
     result |-> <<"Found sum=", StrOfSum(s), " vs.", " the expected min=",
                  StrOfFloat(lo), ", max=", StrOfFloat(hi), ".">>,
     testResultValue |-> << [name |-> "sum", value |-> Some(StrOfSum(s))] >>]

\* ------------------------------------------------------- state machine

Init ==
    /\ test_case \in TestCases
    /\ execution_date \in ExecutionDates
    /\ runner \in [table : Tables]
    /\ pc = "Start"
    /\ column_name = None
    /\ col = None
    /\ sum_value_res = None
    /\ min_bound = None
    /\ max_bound = None
    /\ result = None
    /\ raised = None
    /\ queries = 0
    /\ queryOutcome = "none"
    /\ parsed = {}
    /\ compared = FALSE

\* return of lines 70-75 from the except block of line 64
Abort(err) ==
    /\ result' = Some(AbortedResult(test_case, execution_date, runner.table, err))
    /\ pc' = "Returned"

\* lines 49-57: the column name is cut out of the entity link and looked up
\* in the table; a missing column raises inside the try block.
ResolveColumn ==
    /\ pc = "Start"
    /\ LET name == ColumnName(test_case.entityLink)
           found == FindColumn(runner.table, name)
       IN  /\ column_name' = Some(name)
           /\ col' = found
           /\ IF found = None
              THEN Abort(ColumnNotFound(name, test_case))
              ELSE /\ pc' = "Executing"
                   /\ UNCHANGED result
    /\ UNCHANGED <<test_case, execution_date, runner, sum_value_res, min_bound,
                   max_bound, raised, queries, queryOutcome, parsed, compared>>

\* lines 59-62: one call to dispatch_query_select_first; dict() of its
\* answer; the sum is looked up with get.
DispatchQuery ==
    /\ pc = "Executing"
    /\ queries' = queries + 1
    /\ \E outcome \in QueryOutcomes :
        /\ queryOutcome' = outcome.kind
        /\ CASE outcome.kind = "raises" ->
                 /\ Abort(outcome.err)
                 /\ UNCHANGED sum_value_res
            [] outcome.kind = "no_row" ->
                 /\ Abort(NotIterable)
                 /\ UNCHANGED sum_value_res
            [] outcome.kind = "row" ->
                 /\ sum_value_res' = DictGet(outcome.row, SumKey)
                 /\ pc' = "Evaluating"
                 /\ UNCHANGED result
    /\ UNCHANGED <<test_case, execution_date, runner, column_name, col,
                   min_bound, max_bound, raised, parsed, compared>>

\* lines 77-107, outside the try block: both bounds are extracted, then
\* compared with the sum, then the result is built.  An exception here
\* leaves the function.
Evaluate ==
    /\ pc = "Evaluating"
    /\ LET lo == NextBound(test_case.parameterValues, MinName)
           hi == NextBound(test_case.parameterValues, MaxName)
       IN  IF lo.kind # "ok"
           THEN /\ raised' = Some(lo.kind)
                /\ parsed' = lo.parsed
                /\ pc' = "Raised"
                /\ UNCHANGED <<min_bound, max_bound, result, compared>>
           ELSE IF hi.kind # "ok"
           THEN /\ raised' = Some(hi.kind)
                /\ parsed' = lo.parsed \cup hi.parsed
                /\ min_bound' = Some(lo.value)
                /\ pc' = "Raised"
                /\ UNCHANGED <<max_bound, result, compared>>
           ELSE /\ parsed' = lo.parsed \cup hi.parsed
                /\ min_bound' = Some(lo.value)
                /\ max_bound' = Some(hi.value)
                /\ compared' = TRUE
                /\ IF sum_value_res = None
                   THEN \* float <= None is a TypeError
                        /\ raised' = Some("TypeError")
                        /\ pc' = "Raised"
                        /\ UNCHANGED result
                   ELSE /\ result' = Some(FinalResult(execution_date, sum_value_res,
                                                      lo.value, hi.value))
                        /\ pc' = "Returned"
                        /\ UNCHANGED raised
    /\ UNCHANGED <<test_case, execution_date, runner, column_name, col,
                   sum_value_res, queries, queryOutcome>>

Next == ResolveColumn \/ DispatchQuery \/ Evaluate

Spec == Init /\ [][Next]_vars

\* ------------------------------------------------------------ claims

Terminal == pc \in {"Returned", "Raised"}

ColumnAbsent == column_name # None /\ column_name[1] \notin runner.table.columns

ColumnPresent == column_name # None /\ column_name[1] \in runner.table.columns

HasParam(name) ==
    \E i \in 1..Len(test_case.parameterValues) :
        test_case.parameterValues[i].name = name

\* str.rstrip(ch): only the trailing occurrences of ch are removed.
RECURSIVE RStrip(_, _)
RStrip(s, ch) ==
    IF s # << >> /\ s[Len(s)] = ch
    THEN RStrip(SubSeq(s, 1, Len(s) - 1), ch)
    ELSE s

\* C1: the call never raises outward: whenever it has ended, it has ended
\* by returning a TestCaseResult and no exception has left it.
C1_NeverRaises == Terminal => (pc = "Returned" /\ result # None /\ raised = None)

\* C2: when a Success or Failed result is returned, the status is Success
\* exactly when min_bound <= sum <= max_bound, both ends inclusive.
\* With a numeric sum and both bounds parsed, a result is returned.
C2_InclusiveRange ==
    /\ (Terminal /\ sum_value_res # None /\ min_bound # None /\ max_bound # None)
          => (pc = "Returned" /\ result[1].testCaseStatus # "Aborted")
    /\ (pc = "Returned" /\ result[1].testCaseStatus # "Aborted") =>
          /\ ColumnPresent /\ queryOutcome = "row"
          /\ sum_value_res # None /\ min_bound # None /\ max_bound # None
          /\ result[1].testCaseStatus \in {"Success", "Failed"}
          /\ result[1].testCaseStatus = "Success"
                <=> (min_bound[1] <= 10 * sum_value_res[1]
                     /\ 10 * sum_value_res[1] <= max_bound[1])

C2_Witness ==
    /\ pc = "Returned"
    /\ result[1].testCaseStatus = "Success"
    /\ 10 * sum_value_res[1] = min_bound[1]
    /\ min_bound[1] < max_bound[1]

\* C3: when the column is absent from the table or the runner raised, the
\* call returns Aborted with the message "Error computing <name> for
\* <table>: <error>", one result value "sum" = None, and the bound
\* parameters were neither parsed nor compared.
C3_AbortedOnFailure ==
    (Terminal /\ (ColumnAbsent \/ queryOutcome = "raises")) =>
        /\ pc = "Returned"
        /\ raised = None
        /\ result[1].testCaseStatus = "Aborted"
        /\ Len(result[1].result) = 6
        /\ SubSeq(result[1].result, 1, 5) =
              <<"Error computing ", test_case.name, " for ",
                runner.table.tablename, ": ">>
        /\ result[1].result[6] =
              IF ColumnAbsent
              THEN <<"Cannot find the configured column ", column_name[1],
                     " for test case ", test_case.name>>
              ELSE <<"connection refused">>
        /\ result[1].testResultValue = << [name |-> "sum", value |-> None] >>
        /\ parsed = {} /\ ~compared /\ min_bound = None /\ max_bound = None

C3_Witness ==
    /\ pc = "Returned"
    /\ queryOutcome = "raises"
    /\ result[1].testCaseStatus = "Aborted"
    /\ HasParam(MinName) /\ HasParam(MaxName)

\* C4 as stated: every ended invocation has issued exactly one query.
C4_ExactlyOneQuery == Terminal => queries = 1

\* C4 amended: an invocation issues at most one query; an ended invocation
\* has issued exactly one when the column resolved and none when the
\* column is absent from the table.
C4_AtMostOneQuery ==
    /\ queries <= 1
    /\ Terminal => queries = (IF ColumnPresent THEN 1 ELSE 0)

C4_Witness ==
    /\ pc = "Returned"
    /\ ColumnAbsent
    /\ result[1].testCaseStatus = "Aborted"
    /\ queries = 0

\* C5: once the query stage has completed without raising (a row came
\* back, with or without a sum), the invocation ends in Success or Failed.
C5_RowLeadsToVerdict ==
    (Terminal /\ queryOutcome = "row") =>
        /\ pc = "Returned"
        /\ result[1].testCaseStatus \in {"Success", "Failed"}

\* C6: every returned result carries exactly one result value, named
\* "sum"; its value is None on Aborted and the sum as text otherwise.
C6_OneSumValue ==
    pc = "Returned" =>
        /\ Len(result[1].testResultValue) = 1
        /\ result[1].testResultValue[1].name = "sum"
        /\ result[1].testCaseStatus = "Aborted"
              => result[1].testResultValue[1].value = None
        /\ result[1].testCaseStatus # "Aborted"
              => /\ sum_value_res # None
                 /\ result[1].testResultValue[1].value
                      = Some(ToString(sum_value_res[1]))

C6_Witness ==
    /\ pc = "Returned"
    /\ result[1].testCaseStatus = "Failed"
    /\ result[1].testResultValue[1].value = Some("2")

\* C7: in every returned result the timestamp is the execution_date argument.
C7_TimestampVerbatim ==
    pc = "Returned" => result[1].timestamp = execution_date

C7_Witness ==
    /\ pc = "Returned"
    /\ result[1].testCaseStatus = "Aborted"
    /\ result[1].timestamp = "2022-01-02"

\* C8: the column name is the final "::" segment of the entity link with
\* only its trailing ">" removed; a ">" elsewhere in the segment is kept.
C8_TrailingOnly ==
    column_name # None =>
        column_name[1] = RStrip(LastSegment(test_case.entityLink), ">")

\* C9: a missing column ends in a returned Aborted result, while a missing
\* bound parameter (column resolved, row returned) ends with an exception
\* leaving the call and no result.
C9_TwoSurfaces ==
    Terminal =>
        /\ ColumnAbsent =>
              pc = "Returned" /\ raised = None
              /\ result[1].testCaseStatus = "Aborted"
        /\ (ColumnPresent /\ queryOutcome = "row"
              /\ ~(HasParam(MinName) /\ HasParam(MaxName))) =>
              pc = "Raised" /\ raised # None /\ result = None

C9_Witness ==
    /\ pc = "Raised"
    /\ raised = Some("StopIteration")
    /\ HasParam(MinName) /\ ~HasParam(MaxName)
    /\ sum_value_res # None

\* C10: with several entries of the same bound name, only the first one in
\* order is parsed and used (for the bound and in the message); later
\* entries of that name are never parsed.
C10_FirstEntryWins ==
    LET ps == test_case.parameterValues
        IsFirst(i) == \A j \in 1..(i - 1) : ps[j].name # ps[i].name
    IN  /\ \A i \in parsed :
              ps[i].name \in {MinName, MaxName} /\ IsFirst(i)
        /\ (pc = "Returned" /\ result[1].testCaseStatus # "Aborted") =>
              \A i \in 1..Len(ps) :
                 /\ (ps[i].name = MinName /\ IsFirst(i)) =>
                       /\ i \in parsed
                       /\ min_bound = Some(Float(ps[i].value).value)
                       /\ result[1].result[5] = StrOfFloat(Float(ps[i].value).value)
                 /\ (ps[i].name = MaxName /\ IsFirst(i)) =>
                       /\ i \in parsed
                       /\ max_bound = Some(Float(ps[i].value).value)
                       /\ result[1].result[7] = StrOfFloat(Float(ps[i].value).value)

C10_Witness ==
    /\ pc = "Returned"
    /\ result[1].testCaseStatus = "Success"
    /\ \E i, j \in 1..Len(test_case.parameterValues) :
          /\ i < j
          /\ test_case.parameterValues[i].name = MinName
          /\ test_case.parameterValues[j].name = MinName
          /\ test_case.parameterValues[j].value = <<"x">>

====
